---- MODULE Spec2Model ----
(***************************************************************************)
(* A model of basementuniverse/input-manager (src/index.ts).               *)
(*                                                                         *)
(* InputManager keeps two keyboard states and two mouse states (current    *)
(* and previous).  DOM event handlers registered by the constructor write  *)
(* to the current ones; update() copies the current ones into the previous *)
(* ones and resets the wheel; the queries compare the two.                 *)
(*                                                                         *)
(* JavaScript objects have identity, and the difference between copying an *)
(* object and sharing it is what several properties concern, so objects live *)
(* in heaps: a heap maps a reference to the object's value, and a field    *)
(* that holds an object holds its reference.  There is one heap per kind   *)
(* of object: keyboard states, mouse states, button maps and vectors.  The *)
(* variable instance is the InputManager instance together with the heaps  *)
(* of the objects it leads to.                                             *)
(*                                                                         *)
(* An object used as a map (KeyboardState, MouseState.buttons) is a        *)
(* function whose DOMAIN is the set of its own properties.  Key codes are  *)
(* the values of KeyboardEvent.code and buttons are the values of          *)
(* MouseEvent.button; none of them names a property that a plain object    *)
(* inherits, so reading a property that is not in the DOMAIN gives         *)
(* undefined.                                                              *)
(*                                                                         *)
(* Each handler, and update(), is an operator from the instance to the     *)
(* instance it leaves, and the action of the same name applies it.  The    *)
(* queries are operators of the instance read.                             *)
(***************************************************************************)
EXTENDS Integers, Sequences, FiniteSets, TLC

\* ------------------------------------------------------------------ inputs

\* The key codes the keyboard delivers (KeyboardEvent.code).
Codes == {"KeyA", "KeyB"}

\* The buttons the mouse delivers (MouseEvent.button): the main button, which
\* is also the one the touch handlers write, and the middle button.
Buttons == {0, 1}

\* The offsets mousemove delivers (MouseEvent.offsetX, offsetY).
Points == {[x |-> 0, y |-> 0], [x |-> 1, y |-> 2]}

\* wheel delivers deltaY in -MaxDelta..MaxDelta: ticks of both directions and
\* of more than one magnitude, and 0 (a horizontal scroll).
MaxDelta == 2
Deltas == (0 - MaxDelta)..MaxDelta

\* Each heap has this many cells; unreachable objects are collected.
MaxRefs == 2
Refs == 1..MaxRefs

\* The option sets initialise() is called with (element and
\* preventContextMenu do not affect the state).
OptionSets == [mouse : BOOLEAN, mouseWheel : BOOLEAN, keyboard : BOOLEAN]

\* ------------------------------------------------------------------- state

VARIABLES
    instance,   \* InputManager.instance: undefined, or the fields
                \* keyboardState, previousKeyboardState, mouseState and
                \* previousMouseState (references) with the heaps kbHeap,
                \* msHeap, btnHeap and vecHeap
    options,    \* this.options
    snapshot,   \* history: the values current held at the most recent
                \* update() (the defaults before the first)
    seenCodes,  \* history: the codes that have received an event
    keyLog,     \* history: per code, the events since the most recent
                \* update()
    moveLog,    \* history: the offsets of the most recent mousemove event
                \* (those of vec() before the first)
    wheelLog    \* history: <<>>, or <<sign>> with the sign of deltaY of the
                \* last wheel event dispatched since the most recent
                \* update()

vars == <<instance, options, snapshot, seenCodes, keyLog, wheelLog, moveLog>>

\* The history variables record what was delivered; no operation reads them.
\* A log entry is "none" (no event since the most recent update()), "down"
\* (the last event was a down event), "up" (the last event was an up event
\* and no down event came before it) or "tap" (the last event was an up event
\* and a down event came before it).
Logged(entry, down) ==
    IF down THEN "down"
    ELSE IF entry \in {"down", "tap"} THEN "tap" ELSE "up"

NoEvents(ids) == [i \in ids |-> "none"]

\* The direction of a wheel event: 1 for deltaY > 0 (the page scrolls down),
\* -1 for deltaY < 0 (the page scrolls up), 0 for no vertical scroll.
Sign(deltaY) == IF deltaY > 0 THEN 1 ELSE IF deltaY < 0 THEN -1 ELSE 0

\* ------------------------------------------------------- JavaScript objects

\* The value of a static field that has not been assigned.
undefined == [undefined |-> TRUE]

\* The empty object {}.
EmptyObject == <<>>

\* k in o
Has(o, k) == k \in DOMAIN o

\* Variant of Truthy: o[k] !== false, which holds of undefined.
NotFalse(o, k) == ~(k \in DOMAIN o /\ ~o[k])

\* !!o[k]: undefined when k is not a property of o, else the boolean stored.
Truthy(o, k) == k \in DOMAIN o /\ o[k]

\* o[k] = v
SetProp(o, k, v) == (k :> v) @@ o

\* A reference no object of the heap h has.
NewRef(h) == CHOOSE r \in Refs : r \notin DOMAIN h

\* The heap h with the object v stored at reference r.
Store(h, r, v) == (r :> v) @@ h

\* The heap h without the objects that no reference of keep leads to.
Collect(h, keep) == [p \in (DOMAIN h) \cap keep |-> h[p]]

\* vec(): the zero vector.
vec == [x |-> 0, y |-> 0]

\* vec.cpy(a): a new vector with the components of a.
vecCpy(a) == [x |-> a.x, y |-> a.y]

\* ------------------------------------------------------------ the instance

\* InputManager.defaultOptions, without element and preventContextMenu.
defaultOptions == [mouse |-> TRUE, mouseWheel |-> TRUE, keyboard |-> TRUE]

\* initialKeyboardState(): {}
initialKeyboardState == EmptyObject

\* The field values of initialMouseState(): { buttons: {}, position: vec(),
\* wheel: 0 }; the call allocates the two nested objects.
initialButtons == EmptyObject
initialWheel == 0

\* The objects the fields of the instance s refer to.
CurKeyboard(s) == s.kbHeap[s.keyboardState]
PrevKeyboard(s) == s.kbHeap[s.previousKeyboardState]
CurMouse(s) == s.msHeap[s.mouseState]
PrevMouse(s) == s.msHeap[s.previousMouseState]
CurButtons(s) == s.btnHeap[CurMouse(s).buttons]
PrevButtons(s) == s.btnHeap[PrevMouse(s).buttons]
CurPosition(s) == s.vecHeap[CurMouse(s).position]
PrevPosition(s) == s.vecHeap[PrevMouse(s).position]

\* The values that update() is to capture.
CurrentValues(s) ==
    [keyboard |-> CurKeyboard(s), buttons |-> CurButtons(s),
     position |-> CurPosition(s), wheel |-> CurMouse(s).wheel]

InitialValues ==
    [keyboard |-> initialKeyboardState, buttons |-> initialButtons,
     position |-> vec, wheel |-> initialWheel]

\* new InputManager(): the field initialisers call initialKeyboardState and
\* initialMouseState twice each, and every call makes new objects.
newInstance ==
    [keyboardState |-> 1,
     previousKeyboardState |-> 2,
     mouseState |-> 1,
     previousMouseState |-> 2,
     kbHeap |-> (1 :> initialKeyboardState) @@ (2 :> initialKeyboardState),
     msHeap |-> (1 :> [buttons |-> 1, position |-> 1, wheel |-> initialWheel])
             @@ (2 :> [buttons |-> 2, position |-> 2, wheel |-> initialWheel]),
     btnHeap |-> (1 :> initialButtons) @@ (2 :> initialButtons),
     vecHeap |-> (1 :> vec) @@ (2 :> vec)]

\* No instance: InputManager.instance is undefined and no state exists.
Init ==
    /\ instance = undefined
    /\ options = defaultOptions
    /\ snapshot = InitialValues
    /\ seenCodes = {}
    /\ keyLog = NoEvents(Codes)
    /\ wheelLog = <<>>
    /\ moveLog = vec

\* What a call throws: the message of the Error, or Nothing.
Nothing == ""
AlreadyInitialised == "Input manager already initialised"
NotInitialised == "Input manager not properly initialised"

\* Variant of initialise: an existing instance is replaced and nothing is
\* thrown.
initialiseReplacing(I, opts) ==
    [thrown |-> Nothing, instance |-> newInstance]

\* initialise(options), with I the value of InputManager.instance: what is
\* thrown and the value of InputManager.instance when the call ends.
initialise(I, opts) ==
    IF I # undefined
    THEN [thrown |-> AlreadyInitialised, instance |-> I]
    ELSE [thrown |-> Nothing, instance |-> newInstance]

\* getInstance(): throws when there is no instance, else returns it.
getInstance(I) ==
    IF I = undefined
    THEN [thrown |-> NotInitialised]
    ELSE [thrown |-> Nothing, value |-> I]

\* A call of initialise(options) that returns; the constructor merges the
\* options over the defaults.  A call that throws changes nothing.
Initialise(opts) ==
    /\ initialise(instance, opts).thrown = Nothing
    /\ instance' = initialise(instance, opts).instance
    /\ options' = opts
    /\ UNCHANGED <<snapshot, seenCodes, keyLog, wheelLog, moveLog>>

\* ------------------------------------------------------- the event handlers

\* this.mouseState.buttons[button] = down
setButton(s, button, down) ==
    [s EXCEPT !.btnHeap = Store(@, CurMouse(s).buttons,
                                SetProp(CurButtons(s), button, down))]

\* Variant of setKey: a key that is down stays down
\* (this.keyboardState[code] ||= down).
setKeySticky(s, code, down) ==
    [s EXCEPT !.kbHeap = Store(@, s.keyboardState,
                               SetProp(CurKeyboard(s), code,
                                       Truthy(CurKeyboard(s), code) \/ down))]

\* Variant of setKey: key-up deletes the property (delete
\* this.keyboardState[code]) where the handler stores false.
setKeyDeleting(s, code, down) ==
    [s EXCEPT !.kbHeap = Store(@, s.keyboardState,
        IF down THEN SetProp(CurKeyboard(s), code, TRUE)
        ELSE [p \in (DOMAIN CurKeyboard(s)) \ {code} |-> CurKeyboard(s)[p]])]

\* this.keyboardState[code] = down
setKey(s, code, down) ==
    [s EXCEPT !.kbHeap = Store(@, s.keyboardState,
                               SetProp(CurKeyboard(s), code, down))]

\* Variant of mousemove: the offsets are added to the position
\* (position.x += ...), as for movementX and movementY.
mousemoveRelative(s, offsetX, offsetY) ==
    [s EXCEPT !.vecHeap = Store(@, CurMouse(s).position,
                                [x |-> CurPosition(s).x + offsetX,
                                 y |-> CurPosition(s).y + offsetY])]

\* position.x = offsetX; position.y = offsetY: the vector is written in
\* place.
mousemove(s, offsetX, offsetY) ==
    [s EXCEPT !.vecHeap = Store(@, CurMouse(s).position,
                                [x |-> offsetX, y |-> offsetY])]

\* Variant of wheel: the ticks are added up (this.mouseState.wheel += ...).
wheelAccumulating(s, deltaY) ==
    [s EXCEPT !.msHeap = Store(@, s.mouseState,
        [CurMouse(s) EXCEPT !.wheel = @ + (IF deltaY > 0 THEN 1 ELSE -1)])]

\* Variant of wheel: the delta itself is stored
\* (this.mouseState.wheel = e.deltaY).
wheelRaw(s, deltaY) ==
    [s EXCEPT !.msHeap = Store(@, s.mouseState,
        [CurMouse(s) EXCEPT !.wheel = deltaY])]

\* this.mouseState.wheel = e.deltaY > 0 ? 1 : -1
wheel(s, deltaY) ==
    [s EXCEPT !.msHeap = Store(@, s.mouseState,
        [CurMouse(s) EXCEPT !.wheel = IF deltaY > 0 THEN 1 ELSE -1])]

\* The delivery of an event to its handler.  A handler exists only if the
\* constructor registered it.
MouseDownEvent(button) ==
    /\ instance # undefined /\ options.mouse
    /\ instance' = setButton(instance, button, TRUE)
    /\ UNCHANGED <<options, snapshot, seenCodes, keyLog, wheelLog, moveLog>>

MouseUpEvent(button) ==
    /\ instance # undefined /\ options.mouse
    /\ instance' = setButton(instance, button, FALSE)
    /\ UNCHANGED <<options, snapshot, seenCodes, keyLog, wheelLog, moveLog>>

TouchStartEvent ==
    /\ instance # undefined /\ options.mouse
    /\ instance' = setButton(instance, 0, TRUE)
    /\ UNCHANGED <<options, snapshot, seenCodes, keyLog, wheelLog, moveLog>>

TouchEndEvent ==
    /\ instance # undefined /\ options.mouse
    /\ instance' = setButton(instance, 0, FALSE)
    /\ UNCHANGED <<options, snapshot, seenCodes, keyLog, wheelLog, moveLog>>

MouseMoveEvent(offsetX, offsetY) ==
    /\ instance # undefined /\ options.mouse
    /\ instance' = mousemove(instance, offsetX, offsetY)
    /\ moveLog' = [x |-> offsetX, y |-> offsetY]
    /\ UNCHANGED <<options, snapshot, seenCodes, keyLog, wheelLog>>

\* The wheel listener is added inside the mouse branch of the constructor,
\* under if (this.options.mouseWheel).
wheelRegistered(opts) == opts.mouse /\ opts.mouseWheel

\* A wheel event dispatched on the window: the listener runs if the
\* constructor added it, and nothing listens otherwise.
WheelEvent(deltaY) ==
    /\ instance # undefined
    /\ instance' = IF wheelRegistered(options)
                   THEN wheel(instance, deltaY) ELSE instance
    /\ wheelLog' = <<Sign(deltaY)>>
    /\ UNCHANGED <<options, snapshot, seenCodes, keyLog, moveLog>>

KeyDownEvent(code) ==
    /\ instance # undefined /\ options.keyboard
    /\ instance' = setKey(instance, code, TRUE)
    /\ seenCodes' = seenCodes \cup {code}
    /\ keyLog' = [keyLog EXCEPT ![code] = Logged(@, TRUE)]
    /\ UNCHANGED <<options, snapshot, wheelLog, moveLog>>

KeyUpEvent(code) ==
    /\ instance # undefined /\ options.keyboard
    /\ instance' = setKey(instance, code, FALSE)
    /\ seenCodes' = seenCodes \cup {code}
    /\ keyLog' = [keyLog EXCEPT ![code] = Logged(@, FALSE)]
    /\ UNCHANGED <<options, snapshot, wheelLog, moveLog>>

\* ------------------------------------------------------------------ update

\* Variant of copyKeyboardState: a new object, without the properties of
\* state.
copyKeyboardStateEmpty(kb, state) ==
    LET r == NewRef(kb)
    IN  [ref |-> r, kbHeap |-> Store(kb, r, EmptyObject)]

\* Variant of copyKeyboardState: the state itself is returned, not a copy.
copyKeyboardStateShared(kb, state) ==
    [ref |-> state, kbHeap |-> kb]

\* copyKeyboardState(state): Object.assign({}, state) is a new object with
\* the properties of state.  Gives the reference of the copy and the heap
\* that holds it.
copyKeyboardState(kb, state) ==
    LET r == NewRef(kb)
    IN  [ref |-> r, kbHeap |-> Store(kb, r, kb[state])]

\* Variant of copyMouseState: the position is vec(), not vec.cpy(position).
copyMouseStateNoPosition(ms, btn, vc, state) ==
    LET r == NewRef(ms)
        b == NewRef(btn)
        p == NewRef(vc)
    IN  [ref |-> r,
         msHeap |-> Store(ms, r, [buttons |-> b, position |-> p,
                                  wheel |-> ms[state].wheel]),
         btnHeap |-> Store(btn, b, btn[ms[state].buttons]),
         vecHeap |-> Store(vc, p, vec)]

\* Variant of copyMouseState: a shallow copy, whose buttons are the object
\* of state ({ ...state, position: vec.cpy(state.position) }).
copyMouseStateSharedButtons(ms, btn, vc, state) ==
    LET r == NewRef(ms)
        p == NewRef(vc)
    IN  [ref |-> r,
         msHeap |-> Store(ms, r, [buttons |-> ms[state].buttons,
                                  position |-> p,
                                  wheel |-> ms[state].wheel]),
         btnHeap |-> btn,
         vecHeap |-> Store(vc, p, vecCpy(vc[ms[state].position]))]

\* copyMouseState(state): a new MouseState whose buttons and position are
\* new objects too.
copyMouseState(ms, btn, vc, state) ==
    LET r == NewRef(ms)
        b == NewRef(btn)
        p == NewRef(vc)
    IN  [ref |-> r,
         msHeap |-> Store(ms, r, [buttons |-> b, position |-> p,
                                  wheel |-> ms[state].wheel]),
         btnHeap |-> Store(btn, b, btn[ms[state].buttons]),
         vecHeap |-> Store(vc, p, vecCpy(vc[ms[state].position]))]

\* Variant of update: the two buffers are exchanged, not copied.
updateSwapping(s) ==
    [s EXCEPT !.keyboardState = s.previousKeyboardState,
              !.previousKeyboardState = s.keyboardState,
              !.mouseState = s.previousMouseState,
              !.previousMouseState = s.mouseState,
              !.msHeap = Store(@, s.previousMouseState,
                               [PrevMouse(s) EXCEPT !.wheel = 0])]

\* update().  The two assignments overwrite the previous fields, so the
\* objects that only they led to are garbage when update() returns; their
\* cells are the ones the copies are given.
update(s) ==
    LET k == copyKeyboardState(Collect(s.kbHeap, {s.keyboardState}),
                               s.keyboardState)
        m == copyMouseState(Collect(s.msHeap, {s.mouseState}),
                            Collect(s.btnHeap, {CurMouse(s).buttons}),
                            Collect(s.vecHeap, {CurMouse(s).position}),
                            s.mouseState)
    IN  [keyboardState |-> s.keyboardState,
         previousKeyboardState |-> k.ref,
         mouseState |-> s.mouseState,
         previousMouseState |-> m.ref,
         kbHeap |-> k.kbHeap,
         msHeap |-> Store(m.msHeap, s.mouseState,
                          [m.msHeap[s.mouseState] EXCEPT !.wheel = 0]),
         btnHeap |-> m.btnHeap,
         vecHeap |-> m.vecHeap]

\* A call of update() that returns; getInstance() throws when there is no
\* instance.
Update ==
    /\ getInstance(instance).thrown = Nothing
    /\ instance' = update(getInstance(instance).value)
    /\ snapshot' = CurrentValues(instance)
    /\ keyLog' = NoEvents(Codes)
    /\ wheelLog' = <<>>
    /\ UNCHANGED <<options, seenCodes, moveLog>>

\* ----------------------------------------------------------------- queries

\* Every query starts with getInstance(), which throws when there is no
\* instance; inst is the instance it returns.  A query's optional parameter
\* is the sequence of the arguments given: <<>> when the caller gives none
\* (the parameter is undefined), <<id>> when it gives one.  for (const k in o)
\* with a return inside is a search of the properties of o.

keyDown(inst, args) ==
    IF args = <<>>
    THEN \E k \in DOMAIN CurKeyboard(inst) : Truthy(CurKeyboard(inst), k)
    ELSE Truthy(CurKeyboard(inst), args[1])

\* Variant of keyPressed: the previous state is not consulted.
keyPressedNoPrevious(inst, args) ==
    IF args = <<>>
    THEN \E k \in DOMAIN CurKeyboard(inst) : Truthy(CurKeyboard(inst), k)
    ELSE Truthy(CurKeyboard(inst), args[1])

keyPressed(inst, args) ==
    IF args = <<>>
    THEN \E k \in DOMAIN CurKeyboard(inst) :
            /\ Truthy(CurKeyboard(inst), k)
            /\ (~Has(PrevKeyboard(inst), k) \/ ~Truthy(PrevKeyboard(inst), k))
    ELSE /\ Truthy(CurKeyboard(inst), args[1])
         /\ ~Truthy(PrevKeyboard(inst), args[1])

\* Variant of keyReleased: true when the state of the key has changed.
keyReleasedOnChange(inst, args) ==
    IF args = <<>>
    THEN \E k \in DOMAIN CurKeyboard(inst) :
            Truthy(CurKeyboard(inst), k) # Truthy(PrevKeyboard(inst), k)
    ELSE Truthy(CurKeyboard(inst), args[1])
            # Truthy(PrevKeyboard(inst), args[1])

\* Variant of keyReleased: the test of keyPressed, pasted unchanged.
keyReleasedAsPressed(inst, args) ==
    IF args = <<>>
    THEN \E k \in DOMAIN CurKeyboard(inst) :
            Truthy(CurKeyboard(inst), k) /\ ~Truthy(PrevKeyboard(inst), k)
    ELSE /\ Truthy(CurKeyboard(inst), args[1])
         /\ ~Truthy(PrevKeyboard(inst), args[1])

keyReleased(inst, args) ==
    IF args = <<>>
    THEN \E k \in DOMAIN CurKeyboard(inst) :
            ~Truthy(CurKeyboard(inst), k) /\ Truthy(PrevKeyboard(inst), k)
    ELSE /\ ~Truthy(CurKeyboard(inst), args[1])
         /\ Truthy(PrevKeyboard(inst), args[1])

mouseDown(inst, args) ==
    IF args = <<>>
    THEN \E b \in DOMAIN CurButtons(inst) : Truthy(CurButtons(inst), b)
    ELSE Truthy(CurButtons(inst), args[1])

mousePressed(inst, args) ==
    IF args = <<>>
    THEN \E b \in DOMAIN CurButtons(inst) :
            /\ Truthy(CurButtons(inst), b)
            /\ (~Has(PrevButtons(inst), b) \/ ~Truthy(PrevButtons(inst), b))
    ELSE /\ Truthy(CurButtons(inst), args[1])
         /\ ~Truthy(PrevButtons(inst), args[1])

mouseReleased(inst, args) ==
    IF args = <<>>
    THEN \E b \in DOMAIN CurButtons(inst) :
            ~Truthy(CurButtons(inst), b) /\ Truthy(PrevButtons(inst), b)
    ELSE /\ ~Truthy(CurButtons(inst), args[1])
         /\ Truthy(PrevButtons(inst), args[1])

mouseWheelUp(inst) == CurMouse(inst).wheel > 0

mouseWheelDown(inst) == CurMouse(inst).wheel < 0

\* The getter returns the vector of the current mouse state itself.
mousePosition(inst) == CurMouse(inst).position

\* The vector a reference leads to: what the caller reads from the value the
\* getter returned.
deref(s, ref) == s.vecHeap[ref]

\* An assignment by the caller to the components of a vector it holds
\* (p.x = x; p.y = y): the object the reference leads to is written.
writeVec(s, ref, x, y) ==
    [s EXCEPT !.vecHeap = Store(@, ref, [x |-> x, y |-> y])]

\* The public static methods that start with getInstance(), each with the
\* argument lists it is called with.
KeyQueries == {"keyDown", "keyPressed", "keyReleased"}
MouseQueries == {"mouseDown", "mousePressed", "mouseReleased"}
WheelQueries == {"mouseWheelUp", "mouseWheelDown"}
Queries ==
    (KeyQueries \X ({<<>>} \cup {<<c>> : c \in Codes}))
        \cup (MouseQueries \X ({<<>>} \cup {<<b>> : b \in Buttons}))
        \cup ((WheelQueries \cup {"mousePosition"}) \X {<<>>})

\* What the query method returns for the instance inst.
result(inst, method, args) ==
    CASE method = "keyDown" -> keyDown(inst, args)
      [] method = "keyPressed" -> keyPressed(inst, args)
      [] method = "keyReleased" -> keyReleased(inst, args)
      [] method = "mouseDown" -> mouseDown(inst, args)
      [] method = "mousePressed" -> mousePressed(inst, args)
      [] method = "mouseReleased" -> mouseReleased(inst, args)
      [] method = "mouseWheelUp" -> mouseWheelUp(inst)
      [] method = "mouseWheelDown" -> mouseWheelDown(inst)
      [] method = "mousePosition" -> mousePosition(inst)

\* Variant of queryEffect: a key query records the code it is asked about
\* (keyboardState[code] ??= false).
queryEffectTracking(inst, method, args) ==
    IF method \in KeyQueries /\ args # <<>>
          /\ ~Has(CurKeyboard(inst), args[1])
    THEN setKey(inst, args[1], FALSE)
    ELSE inst

\* The instance a query method leaves: no query method contains an
\* assignment, and reading a property an object lacks does not create it.
queryEffect(inst, method, args) == inst

\* A call of update() or of a query method, with I the value of
\* InputManager.instance: what is thrown, what is returned, and the value of
\* InputManager.instance when the call ends.
call(I, method, args) ==
    IF getInstance(I).thrown # Nothing
    THEN [thrown |-> getInstance(I).thrown, instance |-> I]
    ELSE IF method = "update"
    THEN [thrown |-> Nothing, instance |-> update(getInstance(I).value)]
    ELSE [thrown |-> Nothing,
          returns |-> result(getInstance(I).value, method, args),
          instance |-> queryEffect(getInstance(I).value, method, args)]

\* ----------------------------------------------------------- specification

Next ==
    \/ \E opts \in OptionSets : Initialise(opts)
    \/ \E b \in Buttons : MouseDownEvent(b)
    \/ \E b \in Buttons : MouseUpEvent(b)
    \/ TouchStartEvent
    \/ TouchEndEvent
    \/ \E p \in Points : MouseMoveEvent(p.x, p.y)
    \/ \E d \in Deltas : WheelEvent(d)
    \/ \E c \in Codes : KeyDownEvent(c)
    \/ \E c \in Codes : KeyUpEvent(c)
    \/ Update

Spec == Init /\ [][Next]_vars

\* ------------------------------------------------------------------ properties

\* The properties concern every state the program reaches.  What an operation
\* does next is the value of its operator at the reached instance, so a property
\* about the state right after update() is about update(instance).

\* C1: update() makes previous a value copy of current.  After a call from
\* any reachable state, the previous keyboard map, buttons and position equal
\* the current ones before it, the current wheel is 0, and the current
\* keyboard map, buttons and position are the same as before.
C1_UpdateCopiesCurrent ==
    instance # undefined =>
        LET t == update(instance)
        IN  /\ PrevKeyboard(t) = CurKeyboard(instance)
            /\ PrevButtons(t) = CurButtons(instance)
            /\ PrevPosition(t) = CurPosition(instance)
            /\ CurMouse(t).wheel = 0
            /\ CurKeyboard(t) = CurKeyboard(instance)
            /\ CurButtons(t) = CurButtons(instance)
            /\ CurPosition(t) = CurPosition(instance)

\* C1 witness: an update() has captured a key, a button, a moved position
\* and a wheel tick, and nothing has been delivered since.
C1_Witness ==
    /\ instance # undefined
    /\ snapshot.keyboard # EmptyObject
    /\ snapshot.buttons # EmptyObject
    /\ snapshot.position # vec
    /\ snapshot.wheel # 0
    /\ PrevKeyboard(instance) = snapshot.keyboard
    /\ PrevButtons(instance) = snapshot.buttons
    /\ PrevPosition(instance) = snapshot.position
    /\ CurKeyboard(instance) = snapshot.keyboard
    /\ CurButtons(instance) = snapshot.buttons
    /\ CurPosition(instance) = snapshot.position
    /\ CurMouse(instance).wheel = 0

\* C2: no event changes the previous state.  In every reachable state the
\* previous keyboard map, buttons and position are the ones current held at
\* the most recent update() (the initial defaults before the first).
C2_PreviousIsSnapshot ==
    instance # undefined =>
        /\ PrevKeyboard(instance) = snapshot.keyboard
        /\ PrevButtons(instance) = snapshot.buttons
        /\ PrevPosition(instance) = snapshot.position

\* C2 witness: after an update() that captured a key, a button and a
\* position, events have changed all three in current.
C2_Witness ==
    /\ instance # undefined
    /\ snapshot.keyboard # EmptyObject
    /\ snapshot.buttons # EmptyObject
    /\ snapshot.position # vec
    /\ CurKeyboard(instance) # snapshot.keyboard
    /\ CurButtons(instance) # snapshot.buttons
    /\ CurPosition(instance) # snapshot.position
    /\ PrevKeyboard(instance) = snapshot.keyboard
    /\ PrevButtons(instance) = snapshot.buttons
    /\ PrevPosition(instance) = snapshot.position

\* The case of C3: the key was down at the most recent update() (so current
\* and previous were both true after it), and since then only key-up events
\* have been delivered for it.
ReleasedAfterHeld(c) == keyLog[c] = "up" /\ Truthy(snapshot.keyboard, c)

\* C3 as stated: for a key held down across an update(), a key-up event and
\* then update() give, right after that update(), keyDown(c) = false,
\* keyReleased(c) = true and keyPressed(c) = false.
C3_AsStated ==
    [][\A c \in Codes :
        (Update /\ ReleasedAfterHeld(c)) =>
            /\ ~keyDown(instance', <<c>>)
            /\ keyReleased(instance', <<c>>)
            /\ ~keyPressed(instance', <<c>>)]_vars

\* C3 amended: for a key held down across an update(), after a key-up event
\* and until the next update(), keyDown(c) = false, keyReleased(c) = true and
\* keyPressed(c) = false; right after that update() all three are false.
C3_ReleasedUntilUpdate ==
    instance # undefined =>
        \A c \in Codes :
            ReleasedAfterHeld(c) =>
                /\ ~keyDown(instance, <<c>>)
                /\ keyReleased(instance, <<c>>)
                /\ ~keyPressed(instance, <<c>>)
                /\ LET t == update(instance)
                   IN  /\ ~keyDown(t, <<c>>)
                       /\ ~keyReleased(t, <<c>>)
                       /\ ~keyPressed(t, <<c>>)

\* C3 witness: a key held across an update() has received its key-up.
C3_Witness ==
    /\ instance # undefined
    /\ ReleasedAfterHeld("KeyA")
    /\ keyReleased(instance, <<"KeyA">>)
    /\ ~keyReleased(update(instance), <<"KeyA">>)

\* C4: the queries given an identifier match their definitions over the
\* current and previous maps, for keys and for buttons.
C4_SpecificQueries ==
    instance # undefined =>
        /\ \A c \in Codes :
            LET cur == IF c \in DOMAIN CurKeyboard(instance)
                       THEN CurKeyboard(instance)[c] ELSE FALSE
                prev == IF c \in DOMAIN PrevKeyboard(instance)
                        THEN PrevKeyboard(instance)[c] ELSE FALSE
            IN  /\ keyDown(instance, <<c>>) = cur
                /\ keyPressed(instance, <<c>>) = (cur /\ ~prev)
                /\ keyReleased(instance, <<c>>) = (~cur /\ prev)
        /\ \A b \in Buttons :
            LET cur == IF b \in DOMAIN CurButtons(instance)
                       THEN CurButtons(instance)[b] ELSE FALSE
                prev == IF b \in DOMAIN PrevButtons(instance)
                        THEN PrevButtons(instance)[b] ELSE FALSE
            IN  /\ mouseDown(instance, <<b>>) = cur
                /\ mousePressed(instance, <<b>>) = (cur /\ ~prev)
                /\ mouseReleased(instance, <<b>>) = (~cur /\ prev)

\* C4 witness: one key held, the other released since the update(); one
\* button pressed since the update(), the other never seen.
C4_Witness ==
    /\ instance # undefined
    /\ keyDown(instance, <<"KeyA">>) /\ ~keyPressed(instance, <<"KeyA">>)
    /\ keyReleased(instance, <<"KeyB">>)
    /\ mousePressed(instance, <<0>>)
    /\ 1 \notin DOMAIN CurButtons(instance)

KeyQuiet(inst, c) ==
    /\ ~keyDown(inst, <<c>>)
    /\ ~keyPressed(inst, <<c>>)
    /\ ~keyReleased(inst, <<c>>)

\* The key c reads as newly pressed.
KeyNewlyDown(inst, c) ==
    /\ keyDown(inst, <<c>>)
    /\ keyPressed(inst, <<c>>)
    /\ ~keyReleased(inst, <<c>>)

\* C6: for a code that has never received an event all three key queries are
\* false, and a key-down event delivered then makes keyDown and keyPressed
\* true and keyReleased false; they stay so while key-down is the last event
\* of a code that was absent at the most recent update().
C6_UnseenThenPressed ==
    instance # undefined =>
        \A c \in Codes :
            /\ c \notin seenCodes =>
                  /\ KeyQuiet(instance, c)
                  /\ KeyNewlyDown(setKey(instance, c, TRUE), c)
            /\ (keyLog[c] = "down" /\ c \notin DOMAIN snapshot.keyboard) =>
                  KeyNewlyDown(instance, c)

\* C6 witness: after events for the other code and an update(), a code gets
\* its first event, a key-down.
C6_Witness ==
    /\ instance # undefined
    /\ seenCodes = Codes
    /\ snapshot.keyboard # EmptyObject
    /\ "KeyB" \notin DOMAIN snapshot.keyboard
    /\ keyLog["KeyB"] = "down"
    /\ KeyNewlyDown(instance, "KeyB")

\* No edge query is true, in either form.
NoEdges(inst) ==
    /\ ~keyPressed(inst, <<>>) /\ ~keyReleased(inst, <<>>)
    /\ ~mousePressed(inst, <<>>) /\ ~mouseReleased(inst, <<>>)
    /\ \A c \in Codes : ~keyPressed(inst, <<c>>) /\ ~keyReleased(inst, <<c>>)
    /\ \A b \in Buttons :
          ~mousePressed(inst, <<b>>) /\ ~mouseReleased(inst, <<b>>)

\* C7: right after update(), whatever came before, keyDown and mouseDown are
\* what they were before the call and every edge query is false.
C7_NoEdgesAfterUpdate ==
    instance # undefined =>
        LET t == update(instance)
        IN  /\ \A c \in Codes :
                  keyDown(t, <<c>>) = keyDown(instance, <<c>>)
            /\ \A b \in Buttons :
                  mouseDown(t, <<b>>) = mouseDown(instance, <<b>>)
            /\ keyDown(t, <<>>) = keyDown(instance, <<>>)
            /\ mouseDown(t, <<>>) = mouseDown(instance, <<>>)
            /\ NoEdges(t)

\* C7 witness: the state an update() leaves when a key and a button are down
\* and another key and button have been released.
C7_Witness ==
    /\ instance # undefined
    /\ keyLog = NoEvents(Codes)
    /\ PrevKeyboard(instance) = CurKeyboard(instance)
    /\ PrevButtons(instance) = CurButtons(instance)
    /\ snapshot.keyboard = CurKeyboard(instance)
    /\ snapshot.buttons = CurButtons(instance)
    /\ keyDown(instance, <<"KeyA">>) /\ mouseDown(instance, <<0>>)
    /\ "KeyB" \in DOMAIN CurKeyboard(instance)
    /\ 1 \in DOMAIN CurButtons(instance)
    /\ ~keyDown(instance, <<"KeyB">>) /\ ~mouseDown(instance, <<1>>)
    /\ NoEdges(instance)

\* What an instance holds, object identities aside, without the wheel of
\* previous: no query reads previousMouseState.wheel (update() copies the
\* wheel into it before the reset, so a second update() changes it).  Every
\* query is a function of these values.
Observable(s) ==
    [keyboard |-> CurKeyboard(s),
     previousKeyboard |-> PrevKeyboard(s),
     buttons |-> CurButtons(s),
     previousButtons |-> PrevButtons(s),
     position |-> CurPosition(s),
     previousPosition |-> PrevPosition(s),
     wheel |-> CurMouse(s).wheel]

\* C8: update() is idempotent.  From every reachable state, what the queries
\* observe after update(); update() is what they observe after one update(),
\* with every edge query and both wheel queries false.
C8_UpdateIdempotent ==
    instance # undefined =>
        LET t == update(instance)
            u == update(t)
        IN  /\ Observable(u) = Observable(t)
            /\ NoEdges(t) /\ ~mouseWheelUp(t) /\ ~mouseWheelDown(t)
            /\ NoEdges(u) /\ ~mouseWheelUp(u) /\ ~mouseWheelDown(u)

\* C8 witness: pending edges and a wheel tick, which one update() clears.
C8_Witness ==
    /\ instance # undefined
    /\ keyPressed(instance, <<>>) /\ keyReleased(instance, <<>>)
    /\ mousePressed(instance, <<>>) /\ mouseReleased(instance, <<>>)
    /\ mouseWheelUp(instance)
    /\ Observable(update(instance)) # Observable(instance)

\* C9: for no code are keyPressed and keyReleased both true, and for no
\* button are mousePressed and mouseReleased both true.
C9_EdgePairing ==
    instance # undefined =>
        /\ \A c \in Codes :
              ~(keyPressed(instance, <<c>>) /\ keyReleased(instance, <<c>>))
        /\ \A b \in Buttons :
              ~(mousePressed(instance, <<b>>)
                  /\ mouseReleased(instance, <<b>>))

\* C9 witness: one key pressed and the other released in the same frame, and
\* the same for the two buttons.
C9_Witness ==
    /\ instance # undefined
    /\ keyPressed(instance, <<"KeyA">>) /\ keyReleased(instance, <<"KeyB">>)
    /\ mousePressed(instance, <<0>>) /\ mouseReleased(instance, <<1>>)

\* The case of C10: the key was up at the most recent update() and has since
\* received a key-down event and, after it, a key-up event as its last event.
TransientPress(c) == keyLog[c] = "tap" /\ ~Truthy(snapshot.keyboard, c)

\* C10: a press shorter than a frame is lost.  The update() after a transient
\* press leaves all three key queries false for the code, and they are false
\* for as long as the code was up at the most recent update() and has had no
\* event since.  The last event wins: an event gives its key or button the
\* state it carries whatever the state was, the state a key has is the one
\* its last event carried, and update() captures that state.
C10_TransientPressLost ==
    instance # undefined =>
        /\ \A c \in Codes :
            /\ TransientPress(c) => KeyQuiet(update(instance), c)
            /\ ~Truthy(snapshot.keyboard, c) =>
                  KeyQuiet(update(setKey(setKey(instance, c, TRUE),
                                         c, FALSE)), c)
            /\ (keyLog[c] = "none" /\ ~Truthy(snapshot.keyboard, c)) =>
                  KeyQuiet(instance, c)
            /\ keyLog[c] = "down" => keyDown(instance, <<c>>)
            /\ keyLog[c] \in {"up", "tap"} => ~keyDown(instance, <<c>>)
            /\ \A v \in BOOLEAN :
                LET t == setKey(instance, c, v)
                IN  /\ keyDown(t, <<c>>) = v
                    /\ Truthy(PrevKeyboard(update(t)), c) = v
        /\ \A b \in Buttons :
            \A v \in BOOLEAN :
                LET t == setButton(instance, b, v)
                IN  /\ mouseDown(t, <<b>>) = v
                    /\ Truthy(PrevButtons(update(t)), b) = v

\* C10 witness: a transient press of one key and a lasting press of the
\* other are pending, and the update() called here captures only the second.
C10_Witness ==
    /\ instance # undefined
    /\ TransientPress("KeyA")
    /\ keyLog["KeyB"] = "down"
    /\ KeyQuiet(update(instance), "KeyA")
    /\ Truthy(PrevKeyboard(update(instance)), "KeyB")

\* The wheel listener of the instance exists.
WheelTracked == instance # undefined /\ wheelRegistered(options)

C12_AsStated ==
    WheelTracked =>
        /\ mouseWheelUp(instance) = (wheelLog = <<-1>>)
        /\ mouseWheelDown(instance) = (wheelLog = <<1>>)

\* C13 as stated: the position accessor does not expose internal state.
\* After a caller writes to the value mousePosition returned, a later
\* mousePosition read still gives the coordinates of the last move event, and
\* the next update() captures those coordinates.
C13_AsStated ==
    instance # undefined =>
        \A p \in Points :
            LET t == writeVec(instance, mousePosition(instance), p.x, p.y)
            IN  /\ deref(t, mousePosition(t)) = moveLog
                /\ PrevPosition(update(t)) = moveLog

\* C14: the position accessor gives the offsets of the most recent mousemove
\* event ((0, 0) before the first); key, button, touch and wheel events and
\* update() leave the current position as it is.
C14_PositionIsLastMove ==
    instance # undefined =>
        /\ deref(instance, mousePosition(instance)) = moveLog
        /\ \A p \in Points :
              LET t == mousemove(instance, p.x, p.y)
              IN  deref(t, mousePosition(t)) = p
        /\ \A c \in Codes, v \in BOOLEAN :
              CurPosition(setKey(instance, c, v)) = CurPosition(instance)
        /\ \A b \in Buttons, v \in BOOLEAN :
              CurPosition(setButton(instance, b, v)) = CurPosition(instance)
        /\ \A d \in Deltas :
              CurPosition(wheel(instance, d)) = CurPosition(instance)
        /\ CurPosition(update(instance)) = CurPosition(instance)

\* C14 witness: the pointer moved, update() was called, and key, button and
\* wheel events came after it.
C14_Witness ==
    /\ instance # undefined
    /\ moveLog # vec
    /\ snapshot.position = moveLog
    /\ keyLog["KeyA"] = "down"
    /\ wheelLog # <<>> /\ CurMouse(instance).wheel # 0
    /\ CurButtons(instance) # snapshot.buttons
    /\ deref(instance, mousePosition(instance)) = moveLog

\* C15: lifecycle errors.  While there is no instance, update() and every
\* query throw the "not initialised" error and there is still no instance
\* afterwards; once there is one, initialise() with any options throws the
\* "already initialised" error and leaves the instance, with all its current
\* and previous state, as it was.
C15_LifecycleErrors ==
    /\ instance = undefined =>
          \A q \in Queries \cup {<<"update", <<>>>>} :
              call(instance, q[1], q[2])
                  = [thrown |-> NotInitialised, instance |-> undefined]
    /\ instance # undefined =>
          \A opts \in OptionSets :
              initialise(instance, opts)
                  = [thrown |-> AlreadyInitialised, instance |-> instance]

\* C15 witness: an instance that has key and button state, current and
\* previous, on which a further initialise() throws.
C15_Witness ==
    /\ instance # undefined
    /\ snapshot.keyboard # EmptyObject /\ snapshot.buttons # EmptyObject
    /\ CurKeyboard(instance) # snapshot.keyboard
    /\ CurButtons(instance) # snapshot.buttons
    /\ initialise(instance, defaultOptions).thrown = AlreadyInitialised
    /\ initialise(instance, defaultOptions).instance = instance

\* C16: every query is a pure read.  A query called on the instance, in
\* either form and for any identifier, throws nothing and leaves the instance
\* as it was: the current and previous keyboard maps, button maps, positions
\* and wheels, and the identifiers the maps hold.
C16_QueriesArePure ==
    instance # undefined =>
        \A q \in Queries :
            LET r == call(instance, q[1], q[2])
            IN  /\ r.thrown = Nothing
                /\ r.instance = instance
                /\ DOMAIN CurKeyboard(r.instance) = DOMAIN CurKeyboard(instance)
                /\ DOMAIN CurButtons(r.instance) = DOMAIN CurButtons(instance)

\* C16 witness: with one code tracked and down, the queries are asked about
\* a code and a button that have had no event.
C16_Witness ==
    /\ instance # undefined
    /\ keyDown(instance, <<"KeyA">>)
    /\ "KeyB" \notin seenCodes
    /\ ~Has(CurKeyboard(instance), "KeyB")
    /\ ~Has(CurButtons(instance), 1)
    /\ call(instance, "keyDown", <<"KeyB">>).returns = FALSE
    /\ call(instance, "mousePressed", <<1>>).returns = FALSE
    /\ ~Has(CurKeyboard(call(instance, "keyDown", <<"KeyB">>).instance), "KeyB")

\* C17 as stated: between two consecutive update() calls the same query
\* returns the same result, whatever events are delivered in between.
C17_AsStated ==
    [][(instance # undefined /\ ~Update) =>
          \A q \in Queries :
              call(instance', q[1], q[2]).returns
                  = call(instance, q[1], q[2]).returns]_vars

\* C17 amended: between two update() calls the previous state is stable and
\* the current state changes only when a handler runs: every handler leaves
\* the previous keyboard map, buttons and position as they were, and a query
\* issued twice with no event in between returns the same result.
C17_StableBetweenEvents ==
    instance # undefined =>
        /\ \A q \in Queries :
              call(call(instance, q[1], q[2]).instance, q[1], q[2]).returns
                  = call(instance, q[1], q[2]).returns
        /\ \A c \in Codes, v \in BOOLEAN :
              PrevKeyboard(setKey(instance, c, v)) = PrevKeyboard(instance)
        /\ \A b \in Buttons, v \in BOOLEAN :
              PrevButtons(setButton(instance, b, v)) = PrevButtons(instance)
        /\ \A p \in Points :
              PrevPosition(mousemove(instance, p.x, p.y))
                  = PrevPosition(instance)
        /\ \A d \in Deltas :
              /\ PrevButtons(wheel(instance, d)) = PrevButtons(instance)
              /\ PrevPosition(wheel(instance, d)) = PrevPosition(instance)

\* C17 witness: after an update() that captured a key and a button, a
\* key-down event has turned keyDown true for a code that was up, and a
\* button event is about to change the current buttons.
C17_Witness ==
    /\ instance # undefined
    /\ snapshot.keyboard # EmptyObject /\ snapshot.buttons # EmptyObject
    /\ keyLog["KeyA"] = "down" /\ ~Truthy(snapshot.keyboard, "KeyA")
    /\ call(instance, "keyDown", <<"KeyA">>).returns
    /\ call(instance, "keyPressed", <<"KeyA">>).returns
    /\ CurButtons(setButton(instance, 0, TRUE)) # CurButtons(instance)

\* C18 as stated: the mouse queries called with no argument report on the
\* main button: mouseDown() = mouseDown(0), mousePressed() = mousePressed(0)
\* and mouseReleased() = mouseReleased(0).
C18_AsStated ==
    instance # undefined =>
        /\ mouseDown(instance, <<>>) = mouseDown(instance, <<0>>)
        /\ mousePressed(instance, <<>>) = mousePressed(instance, <<0>>)
        /\ mouseReleased(instance, <<>>) = mouseReleased(instance, <<0>>)

\* C19 as stated: the mouseWheel option alone decides whether wheel input is
\* tracked.  With mouseWheel true a wheel event sets the wheel to 1 or -1,
\* so one of the wheel queries is true until the next update(); with
\* mouseWheel false the wheel stays 0.
C19_AsStated ==
    instance # undefined =>
        /\ (options.mouseWheel /\ wheelLog # <<>>) =>
              /\ CurMouse(instance).wheel \in {1, -1}
              /\ mouseWheelUp(instance) \/ mouseWheelDown(instance)
        /\ ~options.mouseWheel => CurMouse(instance).wheel = 0

\* C20: the current wheel is -1, 0 or 1, so the two wheel queries are never
\* both true; it is 0 exactly when no wheel event has come since the most
\* recent update() (or since initialise()); every wheel event, one with
\* deltaY = 0 too, makes exactly one of the two queries true: the wheel is 1
\* for deltaY > 0 and -1 for deltaY <= 0.
C20_WheelIsTick ==
    instance # undefined =>
        /\ CurMouse(instance).wheel \in {-1, 0, 1}
        /\ ~(mouseWheelUp(instance) /\ mouseWheelDown(instance))
        /\ \A d \in Deltas :
              LET t == wheel(instance, d)
              IN  /\ CurMouse(t).wheel = IF d > 0 THEN 1 ELSE -1
                  /\ mouseWheelUp(t) # mouseWheelDown(t)
        /\ WheelTracked =>
              /\ (CurMouse(instance).wheel = 0) = (wheelLog = <<>>)
              /\ wheelLog = <<1>> => CurMouse(instance).wheel = 1
              /\ wheelLog \in {<<0>>, <<-1>>} => CurMouse(instance).wheel = -1

\* C20 witness: the last wheel event of the frame had deltaY = 0, after a
\* frame that ended on a tick with deltaY > 0.
C20_Witness ==
    /\ WheelTracked
    /\ snapshot.wheel = 1
    /\ wheelLog = <<0>>
    /\ CurMouse(instance).wheel = -1
    /\ mouseWheelDown(instance) /\ ~mouseWheelUp(instance)

====
